---- MODULE Spec2Model ----
(***************************************************************************)
(* A model of topgrade_i18n_locale_checker: the brace tokenizer of the     *)
(* KeyEngMatches rule, the construction of the locale table from a YAML    *)
(* tree, the collection of t!() invocations and the rules run by Checker.  *)
(*                                                                         *)
(* Strings are sequences of one-character strings; byte offsets of the     *)
(* source are 0-based, so the byte at offset i of s is s[i + 1].  The      *)
(* alphabet is ASCII, so byte offsets and character offsets coincide.      *)
(***************************************************************************)
EXTENDS Integers, Sequences, FiniteSets, TLC

VARIABLES
    \* LocaleKeyParser::parse
    input, start_offset, tokens, ppc,
    \* LocalizedTexts::new
    file_yaml, new_result,
    \* SingleFileLocalenKeyCollector / LocaleKeyCollector
    cur_file, mac, single_keys, collected, cpc,
    \* Checker and the rules
    texts, locale_keys, rules, errors, ERROR_STORAGE, rule_idx, n_checks, kpc,
    \* fn main: its position, what it has printed and the exit status
    mpc, stdout, exit_code,
    \* the code that owns Checkers: how many it has made, and what the last
    \* call of has_error returned
    n_checkers, has_error_ret

parseVars   == <<input, start_offset, tokens, ppc>>
tableVars   == <<file_yaml, new_result>>
collectVars == <<cur_file, mac, single_keys, collected, cpc>>
checkerVars == <<texts, locale_keys, rules, errors, ERROR_STORAGE, rule_idx, n_checks, kpc>>
mainVars    == <<mpc, stdout, exit_code>>
callerVars  == <<n_checkers, has_error_ret>>
vars        == <<parseVars, tableVars, collectVars, checkerVars, mainVars, callerVars>>

----------------------------------------------------------------------------
(* Bounds of the model *)

MaxLen == 5          \* longest key string the tokenizer is run on exhaustively
MaxEntries == 3      \* most entries of the outer mapping of the locale file
MaxUsages == 2       \* most KeyUsages collected from the source files, or given to the rules
MaxKeys == 2         \* most keys of the locale table given to the rules
MaxChecks == 1       \* most calls of Checker::check on one Checker

----------------------------------------------------------------------------
(* Option<T> *)

None    == [some |-> FALSE]
Some(v) == [some |-> TRUE, val |-> v]

(* Strings *)

RECURSIVE StringsOfLen(_, _)
StringsOfLen(alphabet, n) ==
    IF n = 0 THEN {<< >>}
    ELSE {Append(s, c) : s \in StringsOfLen(alphabet, n - 1), c \in alphabet}

StringsUpTo(alphabet, n) == UNION {StringsOfLen(alphabet, k) : k \in 0..n}

SetMin(S) == CHOOSE m \in S : \A k \in S : m <= k

----------------------------------------------------------------------------
(* rules/key_and_eng_matches.rs, mod parser *)

LEFT_BRACE  == "{"
RIGHT_BRACE == "}"

WithoutBrace(s) == [kind |-> "WithoutBrace", str |-> s]
WithinBrace(s)  == [kind |-> "WithinBrace", str |-> s]

\* &s[a..b]
Slice(s, a, b) == SubSeq(s, a + 1, b)

\* s[from..].find(pat) for a one-byte pattern: the offset of the first
\* occurrence relative to `from`, or None
Find(s, from, pat) ==
    LET hits == {i \in from..(Len(s) - 1) : s[i + 1] = pat}
    IN  IF hits = {} THEN None ELSE Some(SetMin(hits) - from)

\* &input[left_brace_location + 1..=right_brace_location - 1]
InnerSliceToRight(s, left, right) == Slice(s, left + 1, right + 1)
InnerSlice(s, left, right) == Slice(s, left + 1, right)

\* input[left_brace_location..].find(RIGHT_BRACE)
FindRightBraceLast(s, left) ==
    LET hits == {i \in left..(Len(s) - 1) : s[i + 1] = RIGHT_BRACE}
    IN  IF hits = {} THEN None
        ELSE Some((CHOOSE m \in hits : \A k \in hits : k <= m) - left)
FindRightBrace(s, left) == Find(s, left, RIGHT_BRACE)

\* One iteration of the body of `while start_offset < len`.  The result says
\* whether the body returned from parse.
ParseBodySkipsOne(s, off, toks) ==
    LET opt_left == Find(s, off, LEFT_BRACE)
    IN  IF ~opt_left.some
        THEN [start_offset |-> off,
              tokens |-> Append(toks, WithoutBrace(Slice(s, off, Len(s)))),
              returned |-> TRUE]
        ELSE
          LET left == opt_left.val + off
              opt_right == FindRightBrace(s, left)
          IN  IF ~opt_right.some
              THEN [start_offset |-> off,
                    tokens |-> Append(toks, WithoutBrace(Slice(s, off, Len(s)))),
                    returned |-> TRUE]
              ELSE
                LET right == opt_right.val + left
                    outside == IF left # off
                               THEN Append(toks, WithoutBrace(Slice(s, off, left)))
                               ELSE toks
                IN  [start_offset |-> right + 2,
                     tokens |-> Append(outside, WithinBrace(InnerSlice(s, left, right))),
                     returned |-> FALSE]
ParseBodySplitsTail(s, off, toks) ==
    LET opt_left == Find(s, off, LEFT_BRACE)
    IN  IF ~opt_left.some
        THEN [start_offset |-> off,
              tokens |-> Append(toks, WithoutBrace(Slice(s, off, Len(s)))),
              returned |-> TRUE]
        ELSE
          LET left == opt_left.val + off
              opt_right == FindRightBrace(s, left)
              outside == IF left # off
                         THEN Append(toks, WithoutBrace(Slice(s, off, left)))
                         ELSE toks
          IN  IF ~opt_right.some
              THEN [start_offset |-> off,
                    tokens |-> Append(outside, WithoutBrace(Slice(s, left, Len(s)))),
                    returned |-> TRUE]
              ELSE
                LET right == opt_right.val + left
                IN  [start_offset |-> right + 1,
                     tokens |-> Append(outside, WithinBrace(InnerSlice(s, left, right))),
                     returned |-> FALSE]
ParseBody(s, off, toks) ==
    LET opt_left == Find(s, off, LEFT_BRACE)
    IN  IF ~opt_left.some
        THEN [start_offset |-> off,
              tokens |-> Append(toks, WithoutBrace(Slice(s, off, Len(s)))),
              returned |-> TRUE]
        ELSE
          LET left == opt_left.val + off
              opt_right == FindRightBrace(s, left)
          IN  IF ~opt_right.some
              THEN [start_offset |-> off,
                    tokens |-> Append(toks, WithoutBrace(Slice(s, off, Len(s)))),
                    returned |-> TRUE]
              ELSE
                LET right == opt_right.val + left
                    outside == IF left # off
                               THEN Append(toks, WithoutBrace(Slice(s, off, left)))
                               ELSE toks
                IN  [start_offset |-> right + 1,
                     tokens |-> Append(outside, WithinBrace(InnerSlice(s, left, right))),
                     returned |-> FALSE]

\* LocaleKeyParser::new() followed by parse(input): the tokens it leaves
RECURSIVE ParseLoop(_, _, _)
ParseLoop(s, off, toks) ==
    IF off < Len(s)
    THEN LET r == ParseBody(s, off, toks)
         IN  IF r.returned THEN r.tokens ELSE ParseLoop(s, r.start_offset, r.tokens)
    ELSE toks

Parse(s) == ParseLoop(s, 0, << >>)

\* key_to_en
RECURSIVE KeyToEnFrom(_, _)
KeyToEnFrom(toks, i) ==
    IF i > Len(toks) THEN << >>
    ELSE (IF toks[i].kind = "WithinBrace"
          THEN <<"%", "{">> \o toks[i].str \o <<"}">>
          ELSE toks[i].str) \o KeyToEnFrom(toks, i + 1)

RECURSIVE KeyToEnUnescapedFrom(_, _)
KeyToEnUnescapedFrom(toks, i) ==
    IF i > Len(toks) THEN << >>
    ELSE (IF toks[i].kind = "WithinBrace"
          THEN <<"{">> \o toks[i].str \o <<"}">>
          ELSE toks[i].str) \o KeyToEnUnescapedFrom(toks, i + 1)

KeyToEnUnescaped(toks) == KeyToEnUnescapedFrom(toks, 1)
key_to_en(toks) == KeyToEnFrom(toks, 1)

----------------------------------------------------------------------------
(* The tokenizer run step by step: one action per branch of the loop body *)

KeyAlphabet == {"{", "}", "x"}

\* inputs of the tests single_left_brace, mutliple_left_brace, a_pair_in_chaos
\* and ends_with_brace (with x for the letters)
InputLeftBraces == <<"x", "{", "x", "{", "x", "{">>
InputChaos      == <<"}", "{", "x", "{", "x", "}", "{", "{", "x", "{">>
InputEndsBrace  == <<"x", "x", "{", "x", "x", "}">>

ParseInputs ==
    StringsUpTo(KeyAlphabet, MaxLen) \cup {InputLeftBraces, InputChaos, InputEndsBrace}

IdleParse   == input = << >> /\ start_offset = 0 /\ tokens = << >> /\ ppc = "idle"

InitParse ==
    /\ input \in ParseInputs
    /\ start_offset = 0
    /\ tokens = << >>            \* LocaleKeyParser::new()
    /\ ppc = "loop"

InLoop == ppc = "loop" /\ start_offset < Len(input)

ApplyParseBody ==
    LET r == ParseBody(input, start_offset, tokens)
    IN  /\ start_offset' = r.start_offset
        /\ tokens' = r.tokens
        /\ ppc' = IF r.returned THEN "returned" ELSE "loop"
        /\ UNCHANGED <<input, tableVars, collectVars, checkerVars, mainVars, callerVars>>

\* opt_left_brace_location is None
ParseNoLeftBrace ==
    /\ InLoop
    /\ ~Find(input, start_offset, LEFT_BRACE).some
    /\ ApplyParseBody

\* a left brace with no right brace after it
ParseUnmatchedLeftBrace ==
    /\ InLoop
    /\ Find(input, start_offset, LEFT_BRACE).some
    /\ ~FindRightBrace(input, Find(input, start_offset, LEFT_BRACE).val + start_offset).some
    /\ ApplyParseBody

\* a pair of braces
ParseBracePair ==
    /\ InLoop
    /\ Find(input, start_offset, LEFT_BRACE).some
    /\ FindRightBrace(input, Find(input, start_offset, LEFT_BRACE).val + start_offset).some
    /\ ApplyParseBody

\* the loop condition start_offset < len fails
ParseLoopExit ==
    /\ ppc = "loop"
    /\ ~(start_offset < Len(input))
    /\ ppc' = "exited"
    /\ UNCHANGED <<input, start_offset, tokens, tableVars, collectVars, checkerVars, mainVars, callerVars>>

ParseDone == ppc \in {"returned", "exited"}

----------------------------------------------------------------------------
(* locale_file_parser.rs: the YAML tree (serde_yaml_ng::Value) *)

LOCALE_FILE_VERSION == 2

YNull        == [kind |-> "Null"]
YInt(n)      == [kind |-> "Number", repr |-> "Int", val |-> n]
YFloat(n)    == [kind |-> "Number", repr |-> "Float", val |-> n]
YString(str) == [kind |-> "String", val |-> str]
YSequence    == [kind |-> "Sequence"]
\* a Mapping keeps its entries <<key, value>> in insertion order, keys distinct
YMapping(es) == [kind |-> "Mapping", entries |-> es]

StrVersion == <<"_", "v", "e", "r", "s", "i", "o", "n">>
StrEn      == <<"e", "n">>
StrFr      == <<"f", "r">>
StrA       == <<"a">>
StrB       == <<"b">>
StrC       == <<"c">>

\* the position of the entry of `es` whose key is the string `name`, or 0
IndexOfKey(es, name) ==
    LET hits == {i \in 1..Len(es) : es[i][1] = YString(name)}
    IN  IF hits = {} THEN 0 ELSE SetMin(hits)

\* serde_yaml_ng's Mapping::remove is swap_remove: the last entry takes the
\* removed entry's place
SwapRemoveAt(es, i) ==
    [j \in 1..(Len(es) - 1) |-> IF j = i THEN es[Len(es)] ELSE es[j]]

\* mapping.remove(name): the removed value, if any, and the entries left
MappingRemove(es, name) ==
    LET i == IndexOfKey(es, name)
    IN  IF i = 0 THEN [value |-> None, entries |-> es]
        ELSE [value |-> Some(es[i][2]), entries |-> SwapRemoveAt(es, i)]

\* Value::as_i64
AsI64(v) ==
    IF v.kind = "Number" /\ v.repr = "Int" THEN Some(v.val) ELSE None

Ok(v)      == [ok |-> TRUE, val |-> v]
Panic(msg) == [ok |-> FALSE, panic |-> msg]

PanicNotMapping     == "The outer level container should be a mapping"
\* (the source quotes _version in backquotes)
PanicVersionMissing == "Error: local file version key _version not found"
PanicVersionNotInt  == "Error: locale file version number should be a number"
PanicVersionNot2    == "Error: locale file version should be 2"
PanicKeyNotString   == "Error: locale translation key should be a string"
PanicEnNotString    == "Error: translation should be string"
PanicBadTranslation == "Error: invalid format for translation"

\* Translations::new
TranslationsNewLenient(translation_yaml) ==
    IF translation_yaml.kind = "Mapping"
    THEN LET opt_en_yaml == MappingRemove(translation_yaml.entries, StrEn).value
         IN  IF opt_en_yaml.some /\ opt_en_yaml.val.kind = "String"
             THEN Ok([en |-> Some(opt_en_yaml.val.val)])
             ELSE Ok([en |-> None])
    ELSE Ok([en |-> None])
TranslationsNew(translation_yaml) ==
    IF translation_yaml.kind = "Null" THEN Ok([en |-> None])
    ELSE IF translation_yaml.kind = "Mapping"
    THEN LET opt_en_yaml == MappingRemove(translation_yaml.entries, StrEn).value
         IN  IF ~opt_en_yaml.some THEN Ok([en |-> None])
             ELSE IF opt_en_yaml.val.kind = "String"
             THEN Ok([en |-> Some(opt_en_yaml.val.val)])
             ELSE Panic(PanicEnNotString)
    ELSE Panic(PanicBadTranslation)

\* IndexMap::insert: a new key goes last, a known key keeps its place
IndexMapInsert(map, key, tr) ==
    LET hits == {i \in 1..Len(map) : map[i].key = key}
    IN  IF hits = {} THEN Append(map, [key |-> key, en |-> tr.en])
        ELSE [map EXCEPT ![SetMin(hits)] = [key |-> key, en |-> tr.en]]

\* for (key, translations_yaml) in file_mapping { .. }
RECURSIVE InsertEntries(_, _, _)
InsertEntries(es, i, map) ==
    IF i > Len(es) THEN Ok(map)
    ELSE IF es[i][1].kind # "String" THEN Panic(PanicKeyNotString)
    ELSE LET translations == TranslationsNew(es[i][2])
         IN  IF ~translations.ok THEN translations
             ELSE InsertEntries(es, i + 1,
                                IndexMapInsert(map, es[i][1].val, translations.val))

\* the check of the removed `_version` value
VersionGateAny(opt_version) == Ok(LOCALE_FILE_VERSION)
VersionGate(opt_version) ==
    IF ~opt_version.some THEN Panic(PanicVersionMissing)
    ELSE IF ~AsI64(opt_version.val).some THEN Panic(PanicVersionNotInt)
    ELSE IF AsI64(opt_version.val).val # LOCALE_FILE_VERSION THEN Panic(PanicVersionNot2)
    ELSE Ok(AsI64(opt_version.val).val)

\* LocalizedTexts::new: Ok(texts) or the panic that aborts it
LocalizedTextsNew(yaml) ==
    IF yaml.kind # "Mapping" THEN Panic(PanicNotMapping)
    ELSE LET removed == MappingRemove(yaml.entries, StrVersion)
             gate == VersionGate(removed.value)
         IN  IF ~gate.ok THEN gate
             ELSE InsertEntries(removed.entries, 1, << >>)

----------------------------------------------------------------------------
(* locale_key_collector.rs *)

\* proc_macro2::TokenTree; a Literal carries its source text
Literal(text) == [tt |-> "Literal", text |-> text]
Ident(name)   == [tt |-> "Ident", name |-> name]
Punct(ch)     == [tt |-> "Punct", ch |-> ch]
Group(stream) == [tt |-> "Group", stream |-> stream]

\* syn::Macro: its path (leading `::` and segments), its argument tokens and
\* the start of its span
Macro(leading_colon, segments, toks, line, column) ==
    [leading_colon |-> leading_colon, segments |-> segments, tokens |-> toks,
     line |-> line, column |-> column]

\* str::trim_matches(ch): drops every leading and every trailing ch
RECURSIVE TrimStart(_, _)
TrimStart(s, ch) ==
    IF s # << >> /\ Head(s) = ch THEN TrimStart(Tail(s), ch) ELSE s

RECURSIVE TrimEnd(_, _)
TrimEnd(s, ch) ==
    IF s # << >> /\ s[Len(s)] = ch THEN TrimEnd(SubSeq(s, 1, Len(s) - 1), ch) ELSE s

TrimMatches(s, ch) == TrimEnd(TrimStart(s, ch), ch)

PanicNoArgument == "t!() needs at least 1 argument"
PanicNotLiteral == "The first argument to t!() should be a string literal"

\* LocaleKey::new
LocaleKeyNew(m, file) ==
    IF m.tokens = << >> THEN Panic(PanicNoArgument)
    ELSE IF m.tokens[1].tt # "Literal" THEN Panic(PanicNotLiteral)
    ELSE Ok([key |-> TrimMatches(m.tokens[1].text, "\""), file |-> file,
             line |-> m.line, column |-> m.column])

\* the conditions of visit_macro under which LocaleKey::new is called
IsTranslationMacroAnyLength(m) == m.segments[Len(m.segments)] = "t"
IsTranslationMacro(m) ==
    /\ m.segments[Len(m.segments)] = "t"
    /\ \/ Len(m.segments) = 1
       \/ Len(m.segments) = 2 /\ m.segments[1] = "rust_i18n"

\* syn::visit::visit_macro, the default traversal of one invocation: it
\* visits the path and skips the argument tokens, which syn keeps as an
\* unparsed TokenStream; no invocation written inside them is visited
SynVisitMacro(keys, m, file) == keys

\* visit_macro on one invocation: the collector's locale_keys afterwards, or
\* the panic of LocaleKey::new
VisitMacro(keys, m, file) ==
    LET pushed == IF IsTranslationMacro(m)
                  THEN LET k == LocaleKeyNew(m, file)
                       IN  IF k.ok THEN Ok(Append(keys, k.val)) ELSE k
                  ELSE Ok(keys)
    IN  IF pushed.ok THEN Ok(SynVisitMacro(pushed.val, m, file)) ELSE pushed

----------------------------------------------------------------------------
(* rules/mod.rs *)

RuleIds == {"KeyEngMatches", "MissingTranslations", "UseOfKeysDoNotExist"}

\* std::any::type_name::<Self>() as the segments between the `::`
TypeName(rule) ==
    CASE rule = "KeyEngMatches" ->
            <<"topgrade_i18n_locale_checker", "rules", "key_and_eng_matches", "KeyEngMatches">>
      [] rule = "MissingTranslations" ->
            <<"topgrade_i18n_locale_checker", "rules", "missing_translations", "MissingTranslations">>
      [] rule = "UseOfKeysDoNotExist" ->
            <<"topgrade_i18n_locale_checker", "rules", "use_of_keys_do_not_exist", "UseOfKeysDoNotExist">>

\* Rule::name: what follows the last ':' of the type name
RuleNameFirstSegment(rule) ==
    LET full_name == TypeName(rule)
    IN  IF Len(full_name) > 1 THEN full_name[1] ELSE "Unknown rule name"
RuleName(rule) ==
    LET full_name == TypeName(rule)
    IN  IF Len(full_name) > 1 THEN full_name[Len(full_name)] ELSE "Unknown rule name"

\* Rule::report_error on the map `store`: the entry API of HashMap
ReportErrorOccupiedReplaces(store, name, key, error_msg) ==
    [n \in DOMAIN store \cup {name} |->
        IF n = name THEN << <<key, error_msg>> >> ELSE store[n]]
ReportErrorVacantResets(store, name, key, error_msg) ==
    IF name \in DOMAIN store
    THEN [store EXCEPT ![name] = Append(@, <<key, error_msg>>)]
    ELSE [n \in {name} |-> << <<key, error_msg>> >>]
ReportError(store, name, key, error_msg) ==
    IF name \in DOMAIN store
    THEN [store EXCEPT ![name] = Append(@, <<key, error_msg>>)]
    ELSE [n \in DOMAIN store \cup {name} |->
            IF n = name THEN << <<key, error_msg>> >> ELSE store[n]]

EmptyMap == [n \in {} |-> << >>]

\* the diagnostics stored under a rule name
Diags(store, name) == IF name \in DOMAIN store THEN store[name] ELSE << >>

----------------------------------------------------------------------------
(* rules/key_and_eng_matches.rs *)

MsgMissingEnglish == <<"Missing English translation">>

RECURSIVE KeyEngLoopNoReturn(_, _, _)
KeyEngLoopNoReturn(localized, i, store) ==
    IF i > Len(localized) THEN store
    ELSE IF ~localized[i].en.some
    THEN KeyEngLoopNoReturn(localized, i + 1,
            ReportError(store, RuleName("KeyEngMatches"), localized[i].key,
                        Some(MsgMissingEnglish)))
    ELSE IF localized[i].en.val # key_to_en(Parse(localized[i].key))
    THEN KeyEngLoopNoReturn(localized, i + 1,
            ReportError(store, RuleName("KeyEngMatches"), localized[i].key, None))
    ELSE KeyEngLoopNoReturn(localized, i + 1, store)

\* the loop of KeyEngMatches::check from the i-th entry of the table on
RECURSIVE KeyEngLoop(_, _, _)
KeyEngLoop(localized, i, store) ==
    IF i > Len(localized) THEN store
    ELSE IF ~localized[i].en.some
    THEN ReportError(store, RuleName("KeyEngMatches"), localized[i].key,
                     Some(MsgMissingEnglish))                      \* return
    ELSE IF localized[i].en.val # key_to_en(Parse(localized[i].key))
    THEN KeyEngLoop(localized, i + 1,
            ReportError(store, RuleName("KeyEngMatches"), localized[i].key, None))
    ELSE KeyEngLoop(localized, i + 1, store)

KeyEngMatchesCheckNoReturn(localized, usages, store) == KeyEngLoopNoReturn(localized, 1, store)
KeyEngMatchesCheck(localized, usages, store) == KeyEngLoop(localized, 1, store)

----------------------------------------------------------------------------
(* rules/missing_translations.rs *)

\* bitflags MissingLanguages, as the set of the flags that are set
MissingLanguagesEn == "En"

\* MissingLanguages::error_msg, as the pieces pushed onto the string
RECURSIVE LangNames(_)
LangNames(flags) ==
    IF flags = {} THEN << >>
    ELSE LET lang == CHOOSE l \in flags : TRUE
         IN  (IF lang = MissingLanguagesEn THEN <<"English">> ELSE << >>)
             \o LangNames(flags \ {lang})

MissingLanguagesErrorMsg(flags) ==
    <<"Missing translations for ", "[">> \o LangNames(flags) \o <<"]">>

\* the languages a record misses
MissingLangsOfOrEmpty(translations) ==
    IF ~translations.en.some \/ translations.en = Some(<< >>)
    THEN {MissingLanguagesEn} ELSE {}
MissingLangsOf(translations) ==
    IF ~translations.en.some THEN {MissingLanguagesEn} ELSE {}

RECURSIVE MissingLoop(_, _, _)
MissingLoop(localized, i, store) ==
    IF i > Len(localized) THEN store
    ELSE LET missing_langs == MissingLangsOf(localized[i])
         IN  IF missing_langs # {}
             THEN MissingLoop(localized, i + 1,
                    ReportError(store, RuleName("MissingTranslations"), localized[i].key,
                                Some(MissingLanguagesErrorMsg(missing_langs))))
             ELSE MissingLoop(localized, i + 1, store)

MissingTranslationsCheck(localized, usages, store) == MissingLoop(localized, 1, store)

----------------------------------------------------------------------------
(* rules/use_of_keys_do_not_exist.rs *)

\* IndexMap::contains_key
ContainsKey(localized, key) == \E i \in 1..Len(localized) : localized[i].key = key

\* format!("file '{}' / line '{}' / column '{}' / key '{}'", ..), as its pieces
UsageSubjectSwapped(u) ==
    <<"file '", u.file, "' / line '", u.column, "' / column '", u.line,
      "' / key '", u.key, "'">>
UsageSubject(u) ==
    <<"file '", u.file, "' / line '", u.line, "' / column '", u.column,
      "' / key '", u.key, "'">>

RECURSIVE UseOfKeysLoop(_, _, _, _)
UseOfKeysLoop(localized, usages, i, store) ==
    IF i > Len(usages) THEN store
    ELSE IF ~ContainsKey(localized, usages[i].key)
    THEN UseOfKeysLoop(localized, usages, i + 1,
            ReportError(store, RuleName("UseOfKeysDoNotExist"), UsageSubject(usages[i]), None))
    ELSE UseOfKeysLoop(localized, usages, i + 1, store)

UseOfKeysDoNotExistCheck(localized, usages, store) == UseOfKeysLoop(localized, usages, 1, store)

----------------------------------------------------------------------------
(* The values the variables of a component keep while another one runs *)

NoMacro == Macro(FALSE, <<"none">>, << >>, 0, 0)

IdleTable   == file_yaml = YNull /\ new_result = None
IdleCollect == /\ cur_file = "" /\ mac = NoMacro /\ single_keys = << >>
               /\ collected = << >> /\ cpc = "idle"
IdleChecker == /\ texts = << >> /\ locale_keys = << >> /\ rules = << >>
               /\ errors = EmptyMap /\ ERROR_STORAGE = EmptyMap
               /\ rule_idx = 0 /\ n_checks = 0 /\ kpc = "off"

----------------------------------------------------------------------------
(* SpecParse: LocaleKeyParser::parse on every input *)

IdleMain    == mpc = "off" /\ stdout = << >> /\ exit_code = None
IdleCaller  == n_checkers = 0 /\ has_error_ret = None

InitParseSpec ==
    InitParse /\ IdleTable /\ IdleCollect /\ IdleChecker /\ IdleMain /\ IdleCaller

NextParse ==
    \/ ParseNoLeftBrace
    \/ ParseUnmatchedLeftBrace
    \/ ParseBracePair
    \/ ParseLoopExit

SpecParse == InitParseSpec /\ [][NextParse]_vars

\* parse runs on a thread that keeps executing: an iteration that can be
\* taken is taken
SpecParseFair == SpecParse /\ WF_vars(NextParse)

----------------------------------------------------------------------------
(* SpecTable: LocalizedTexts::new on every tree *)

EntryKeys   == {YString(StrVersion), YString(StrA), YString(StrB), YInt(1)}
EntryValues == {YNull, YInt(1), YInt(2), YFloat(2), YString(StrA),
                YMapping(<< <<YString(StrEn), YString(StrA)>> >>),
                YMapping(<< <<YString(StrEn), YInt(1)>> >>),
                YMapping(<< <<YString(StrFr), YString(StrB)>>,
                            <<YString(StrEn), YString(StrC)>> >>),
                YMapping(<< <<YString(StrFr), YString(StrB)>> >>)}

Injective(f) == \A i, j \in DOMAIN f : f[i] = f[j] => i = j

\* a tree that is no mapping, or a mapping of at most MaxEntries entries; the
\* keys of a Mapping are pairwise distinct
InitTable ==
    /\ new_result = None
    /\ \/ file_yaml \in {YNull, YString(StrA), YSequence}
       \/ \E n \in 0..MaxEntries :
            \E ks \in [1..n -> EntryKeys] :
                /\ Injective(ks)
                /\ \E vs \in [1..n -> EntryValues] :
                      file_yaml = YMapping([i \in 1..n |-> <<ks[i], vs[i]>>])

NewLocalizedTexts ==
    /\ new_result = None
    /\ new_result' = Some(LocalizedTextsNew(file_yaml))
    /\ UNCHANGED <<file_yaml, parseVars, collectVars, checkerVars, mainVars, callerVars>>

InitTableSpec ==
    IdleParse /\ InitTable /\ IdleCollect /\ IdleChecker /\ IdleMain /\ IdleCaller

NextTable == NewLocalizedTexts

SpecTable == InitTableSpec /\ [][NextTable]_vars

----------------------------------------------------------------------------
(* SpecCollect: LocaleKeyCollector::collect, the invocations met one by one *)

Files == {"foo.rs", "bar.rs"}

StrLitK == <<"\"", "k", "\"">>       \* "k"
IntLit1 == <<"1">>                   \* 1

MacroPaths ==
    {<<"t">>, <<"rust_i18n", "t">>, <<"foo", "t">>, <<"foo", "bar", "t">>,
     <<"x">>, <<"rust_i18n", "x">>}

\* the tokens  t!("k")  written among the arguments of another invocation
NestedInvocation == <<Ident("t"), Punct("!"), Group(<<Literal(StrLitK)>>)>>

MacroTokens ==
    {<< >>, <<Literal(StrLitK)>>, <<Literal(StrLitK), Punct(",")>>,
     <<Literal(IntLit1)>>, <<Ident("key")>>, NestedInvocation}

MacroSpans == {<<1, 0>>, <<2, 1>>}

MacroPool ==
    {Macro(lc, p, t, sp[1], sp[2]) :
        lc \in BOOLEAN, p \in MacroPaths, t \in MacroTokens, sp \in MacroSpans}

InitCollect ==
    /\ cur_file = "" /\ mac = NoMacro
    /\ single_keys = << >>
    /\ collected = << >>             \* LocaleKeyCollector::new()
    /\ cpc = "between"

\* the next file is read and parsed, and a collector is made for it
CollectBeginFile(file) ==
    /\ cpc = "between"
    /\ cur_file' = file
    /\ single_keys' = << >>
    /\ cpc' = "visiting"
    /\ UNCHANGED <<mac, collected, parseVars, tableVars, checkerVars, mainVars, callerVars>>

\* read_to_string or syn::parse_file fails
CollectFileFails(file) ==
    /\ cpc = "between"
    /\ cur_file' = file
    /\ cpc' = "panicked"
    /\ UNCHANGED <<mac, single_keys, collected, parseVars, tableVars, checkerVars, mainVars, callerVars>>

\* visit_file reaches the invocation m
CollectVisitMacro(m) ==
    /\ cpc = "visiting"
    /\ Len(collected) + Len(single_keys) < MaxUsages
    /\ mac' = m
    /\ LET r == VisitMacro(single_keys, m, cur_file)
       IN  /\ single_keys' = IF r.ok THEN r.val ELSE single_keys
           /\ cpc' = IF r.ok THEN "visiting" ELSE "panicked"
    /\ UNCHANGED <<cur_file, collected, parseVars, tableVars, checkerVars, mainVars, callerVars>>

\* self.locale_keys.extend(single_file_collector.locale_keys)
CollectEndFile ==
    /\ cpc = "visiting"
    /\ collected' = collected \o single_keys
    /\ single_keys' = << >>
    /\ cpc' = "between"
    /\ UNCHANGED <<cur_file, mac, parseVars, tableVars, checkerVars, mainVars, callerVars>>

\* no file is left
CollectReturn ==
    /\ cpc = "between"
    /\ cpc' = "done"
    /\ UNCHANGED <<cur_file, mac, single_keys, collected, parseVars, tableVars, checkerVars, mainVars, callerVars>>

InitCollectSpec ==
    IdleParse /\ IdleTable /\ InitCollect /\ IdleChecker /\ IdleMain /\ IdleCaller

NextCollect ==
    \/ \E file \in Files : CollectBeginFile(file)
    \/ \E file \in Files : CollectFileFails(file)
    \/ \E m \in MacroPool : CollectVisitMacro(m)
    \/ CollectEndFile
    \/ CollectReturn

SpecCollect == InitCollectSpec /\ [][NextCollect]_vars

----------------------------------------------------------------------------
(* Spec: a Checker, the rules registered on it and its checks *)

KeyBraces == <<"x", "{", "x", "}">>            \* x{x}
EnEscaped == <<"x", "%", "{", "x", "}">>       \* x%{x}

TableKeys == {KeyBraces, <<"{">>, << >>}
TableEns  == {None, Some(<< >>), Some(KeyBraces), Some(EnEscaped)}

UsagePool ==
    {[key |-> KeyBraces, file |-> "foo.rs", line |-> 1, column |-> 0],
     [key |-> <<"k">>, file |-> "bar.rs", line |-> 2, column |-> 1]}

\* a table of at most MaxKeys keys, pairwise distinct, and at most MaxUsages
\* KeyUsages
InitInputs ==
    /\ \E n \in 0..MaxKeys :
          \E ks \in [1..n -> TableKeys] :
              /\ Injective(ks)
              /\ \E es \in [1..n -> TableEns] :
                    texts = [i \in 1..n |-> [key |-> ks[i], en |-> es[i]]]
    /\ \E n \in 0..MaxUsages : locale_keys \in [1..n -> UsagePool]

InitChecker ==
    /\ InitInputs
    /\ rules = << >>                 \* Checker::new()
    /\ errors = EmptyMap
    /\ ERROR_STORAGE = EmptyMap      \* Lazy::new(HashMap::new)
    /\ rule_idx = 0
    /\ n_checks = 0
    /\ kpc = "idle"

Registered(rule) == \E i \in 1..Len(rules) : rules[i] = rule

\* Checker::register_rule
RegisterRule(rule) ==
    /\ kpc = "idle"
    /\ ~Registered(rule)
    /\ rules' = Append(rules, rule)
    /\ UNCHANGED <<texts, locale_keys, errors, ERROR_STORAGE, rule_idx, n_checks, kpc>>
    /\ UNCHANGED <<parseVars, tableVars, collectVars, mainVars, callerVars>>

\* Checker::check is entered
CheckBegin ==
    /\ kpc = "idle"
    /\ n_checks < MaxChecks
    /\ n_checks' = n_checks + 1
    /\ rule_idx' = 0
    /\ kpc' = "checking"
    /\ UNCHANGED <<texts, locale_keys, rules, errors, ERROR_STORAGE>>
    /\ UNCHANGED <<parseVars, tableVars, collectVars, mainVars, callerVars>>

\* rule.check(..) of the next rule of self.rules; report_error stores into
\* ERROR_STORAGE
RunRule(rule, store) ==
    /\ kpc = "checking"
    /\ rule_idx < Len(rules)
    /\ rules[rule_idx + 1] = rule
    /\ ERROR_STORAGE' = store
    /\ rule_idx' = rule_idx + 1
    /\ UNCHANGED <<texts, locale_keys, rules, errors, n_checks, kpc>>
    /\ UNCHANGED <<parseVars, tableVars, collectVars, mainVars, callerVars>>

RunKeyEngMatches ==
    RunRule("KeyEngMatches", KeyEngMatchesCheck(texts, locale_keys, ERROR_STORAGE))

RunMissingTranslations ==
    RunRule("MissingTranslations", MissingTranslationsCheck(texts, locale_keys, ERROR_STORAGE))

RunUseOfKeysDoNotExist ==
    RunRule("UseOfKeysDoNotExist", UseOfKeysDoNotExistCheck(texts, locale_keys, ERROR_STORAGE))

\* rule.check(..) through the trait object Box<dyn Rule>
RuleCheck(rule, localized, usages, store) ==
    CASE rule = "KeyEngMatches" -> KeyEngMatchesCheck(localized, usages, store)
      [] rule = "MissingTranslations" -> MissingTranslationsCheck(localized, usages, store)
      [] rule = "UseOfKeysDoNotExist" -> UseOfKeysDoNotExistCheck(localized, usages, store)

\* the loop over self.rules ends
CheckEnd ==
    /\ kpc = "checking"
    /\ rule_idx = Len(rules)
    /\ kpc' = "idle"
    /\ UNCHANGED <<texts, locale_keys, rules, errors, ERROR_STORAGE, rule_idx, n_checks>>
    /\ UNCHANGED <<parseVars, tableVars, collectVars, mainVars, callerVars>>

\* one Checker has been made
InitCaller == n_checkers = 1 /\ has_error_ret = None

InitSpec ==
    IdleParse /\ IdleTable /\ IdleCollect /\ InitChecker /\ IdleMain /\ InitCaller

Next ==
    \/ \E rule \in RuleIds : RegisterRule(rule)
    \/ CheckBegin
    \/ RunKeyEngMatches
    \/ RunMissingTranslations
    \/ RunUseOfKeysDoNotExist
    \/ CheckEnd

Spec == InitSpec /\ [][Next]_vars

----------------------------------------------------------------------------
(* SpecProcess: one process that makes Checkers one after the other, as the *)
(* tests of the rules do, each over the same inputs                        *)

MaxCheckers == 2     \* most Checkers made in one process

\* Checker::new() once more: rules and errors of the new Checker are empty;
\* the static ERROR_STORAGE is the one of the process
NewChecker ==
    /\ kpc = "idle"
    /\ n_checkers < MaxCheckers
    /\ n_checkers' = n_checkers + 1
    /\ rules' = << >>
    /\ errors' = EmptyMap
    /\ rule_idx' = 0
    /\ n_checks' = 0
    /\ UNCHANGED <<texts, locale_keys, ERROR_STORAGE, kpc, has_error_ret>>
    /\ UNCHANGED <<parseVars, tableVars, collectVars, mainVars>>

NextProcess ==
    \/ \E rule \in RuleIds : RegisterRule(rule)
    \/ CheckBegin
    \/ RunKeyEngMatches
    \/ RunMissingTranslations
    \/ RunUseOfKeysDoNotExist
    \/ CheckEnd
    \/ NewChecker

SpecProcess == InitSpec /\ [][NextProcess]_vars

----------------------------------------------------------------------------
(* SpecRepeat: one Checker on which check is called again and again over    *)
(* the same inputs                                                          *)

MaxRepeats == 2      \* most calls of Checker::check on the Checker of SpecRepeat

\* a table of at most one key and at most one KeyUsage
InitRepeatInputs ==
    /\ \/ texts = << >>
       \/ \E k \in TableKeys : \E en \in TableEns : texts = <<[key |-> k, en |-> en]>>
    /\ \/ locale_keys = << >>
       \/ \E u \in UsagePool : locale_keys = <<u>>

InitRepeat ==
    /\ InitRepeatInputs
    /\ rules = << >>                 \* Checker::new()
    /\ errors = EmptyMap
    /\ ERROR_STORAGE = EmptyMap      \* Lazy::new(HashMap::new)
    /\ rule_idx = 0
    /\ n_checks = 0
    /\ kpc = "idle"

\* Checker::check is entered, for the first time or again
CheckBeginRepeated ==
    /\ kpc = "idle"
    /\ n_checks < MaxRepeats
    /\ n_checks' = n_checks + 1
    /\ rule_idx' = 0
    /\ kpc' = "checking"
    /\ UNCHANGED <<texts, locale_keys, rules, errors, ERROR_STORAGE>>
    /\ UNCHANGED <<parseVars, tableVars, collectVars, mainVars, callerVars>>

InitRepeatSpec ==
    IdleParse /\ IdleTable /\ IdleCollect /\ InitRepeat /\ IdleMain /\ InitCaller

NextRepeat ==
    \/ \E rule \in RuleIds : RegisterRule(rule)
    \/ CheckBeginRepeated
    \/ RunKeyEngMatches
    \/ RunMissingTranslations
    \/ RunUseOfKeysDoNotExist
    \/ CheckEnd

SpecRepeat == InitRepeatSpec /\ [][NextRepeat]_vars

----------------------------------------------------------------------------
(* SpecMain: fn main of main.rs.  main.rs declares `mod check` only: the    *)
(* Checker, the rule MissingTranslations and the static ERROR_STORAGE of    *)
(* the program it builds are those of check/, and LocalizedTexts is its own *)
(* copy of the code of locale_file_parser.rs.  The variables file_yaml,     *)
(* new_result, texts, rules, rule_idx and ERROR_STORAGE hold them here.     *)

\* the exit status of a process whose main returns, and of one that panics
EXIT_SUCCESS == 0
EXIT_PANIC   == 101

\* LocalizedTexts::new of main.rs, the same text as in locale_file_parser.rs
MainLocalizedTextsNew(file_yaml_) == LocalizedTextsNew(file_yaml_)

\* a panic unwinds out of main: nothing after it is executed
MainAfterNewCaught(r) == "built"
MainAfterNew(r) == IF r.ok THEN "built" ELSE "panicked"

\* check/mod.rs Rule::name: what follows the last ':' of the type name
CheckTypeName ==
    <<"topgrade_i18n_locale_checker", "check", "missing_translations", "MissingTranslations">>
CheckRuleName ==
    IF Len(CheckTypeName) > 1 THEN CheckTypeName[Len(CheckTypeName)] ELSE "UNKNOWN"

\* check/mod.rs Rule::report_error
CheckReportError(store, name, key, error_msg) ==
    IF name \in DOMAIN store
    THEN [store EXCEPT ![name] = Append(@, <<key, error_msg>>)]
    ELSE [n \in DOMAIN store \cup {name} |->
            IF n = name THEN << <<key, error_msg>> >> ELSE store[n]]

CheckMsgMissingEnglish == "Missing English(en) translation"

\* check/missing_translations.rs MissingTranslations::check
RECURSIVE CheckMissingLoop(_, _, _)
CheckMissingLoop(localized, i, store) ==
    IF i > Len(localized) THEN store
    ELSE IF ~localized[i].en.some
         THEN CheckMissingLoop(localized, i + 1,
                CheckReportError(store, CheckRuleName, localized[i].key,
                                 CheckMsgMissingEnglish))
         ELSE CheckMissingLoop(localized, i + 1, store)

\* .map(|errors| errors.len()).sum() over the entries under `names`
RECURSIVE SumLens(_, _)
SumLens(store, names) ==
    IF names = {} THEN 0
    ELSE LET n == CHOOSE n \in names : TRUE
         IN  Len(store[n]) + SumLens(store, names \ {n})

\* one printed line: its indentation, the key it starts with and its text
Line(indent, key, text) == [indent |-> indent, key |-> key, text |-> text]

RECURSIVE ErrorLines(_, _)
ErrorLines(errs, i) ==
    IF i > Len(errs) THEN << >>
    ELSE <<Line(4, errs[i][1], errs[i][2])>> \o ErrorLines(errs, i + 1)

\* the lines of the entries of ERROR_STORAGE in the order `ord` of its names
RECURSIVE RuleLines(_, _, _)
RuleLines(store, ord, i) ==
    IF i > Len(ord) THEN << >>
    ELSE <<Line(2, << >>, ord[i])>> \o ErrorLines(store[ord[i]], 1)
             \o RuleLines(store, ord, i + 1)

InitMain ==
    /\ InitTable                     \* the tree the YAML file holds
    /\ mpc = "start" /\ stdout = << >> /\ exit_code = None

\* args().skip(1).next().expect(..)
MainArgs ==
    /\ mpc = "start"
    /\ \E given \in BOOLEAN :
          /\ mpc' = IF given THEN "named" ELSE "panicked"
          /\ exit_code' = IF given THEN exit_code ELSE Some(EXIT_PANIC)
    /\ UNCHANGED <<stdout, parseVars, tableVars, collectVars, checkerVars, callerVars>>

\* File::open(&file_name).unwrap_or_else(|e| panic!(..))
MainOpen ==
    /\ mpc = "named"
    /\ \E opened \in BOOLEAN :
          /\ mpc' = IF opened THEN "opened" ELSE "panicked"
          /\ exit_code' = IF opened THEN exit_code ELSE Some(EXIT_PANIC)
    /\ UNCHANGED <<stdout, parseVars, tableVars, collectVars, checkerVars, callerVars>>

\* from_reader(&file).unwrap(): the file holds the tree file_yaml, or no YAML
MainFromReader ==
    /\ mpc = "opened"
    /\ \E is_yaml \in BOOLEAN :
          /\ mpc' = IF is_yaml THEN "read" ELSE "panicked"
          /\ exit_code' = IF is_yaml THEN exit_code ELSE Some(EXIT_PANIC)
    /\ UNCHANGED <<stdout, parseVars, tableVars, collectVars, checkerVars, callerVars>>

\* LocalizedTexts::new(contents)
MainLocalizedTexts ==
    /\ mpc = "read"
    /\ LET r == MainLocalizedTextsNew(file_yaml)
       IN  /\ new_result' = Some(r)
           /\ texts' = IF r.ok THEN r.val ELSE texts
           /\ mpc' = MainAfterNew(r)
           /\ exit_code' = IF r.ok THEN exit_code ELSE Some(EXIT_PANIC)
    /\ UNCHANGED <<file_yaml, stdout, locale_keys, rules, errors, ERROR_STORAGE,
                   rule_idx, n_checks, kpc, parseVars, collectVars, callerVars>>

\* Checker::new() and register_rule(MissingTranslations)
MainRegister ==
    /\ mpc = "built"
    /\ rules' = <<"MissingTranslations">>
    /\ mpc' = "registered"
    /\ UNCHANGED <<stdout, exit_code, texts, locale_keys, errors, ERROR_STORAGE,
                   rule_idx, n_checks, kpc, parseVars, tableVars, collectVars, callerVars>>

\* checker.check(&localized_texts): the registered rule runs
MainCheck ==
    /\ mpc = "registered"
    /\ ERROR_STORAGE' = CheckMissingLoop(texts, 1, ERROR_STORAGE)
    /\ rule_idx' = Len(rules)
    /\ mpc' = "checked"
    /\ UNCHANGED <<stdout, exit_code, texts, locale_keys, rules, errors,
                   n_checks, kpc, parseVars, tableVars, collectVars, callerVars>>

\* checker.report_to_user() of check/mod.rs; a HashMap is iterated in an
\* order of its own
MainReport ==
    /\ mpc = "checked"
    /\ LET names == DOMAIN ERROR_STORAGE
           n_errors == SumLens(ERROR_STORAGE, names)
       IN  \E ord \in [1..Cardinality(names) -> names] :
              /\ \A i, j \in DOMAIN ord : i # j => ord[i] # ord[j]
              /\ stdout' = <<Line(0, << >>, "Errors Found:")>> \o
                     (IF n_errors = 0 THEN <<Line(2, << >>, "No error")>>
                      ELSE RuleLines(ERROR_STORAGE, ord, 1))
    /\ mpc' = "reported"
    /\ UNCHANGED <<exit_code, parseVars, tableVars, collectVars, checkerVars, callerVars>>

\* main returns
MainReturn ==
    /\ mpc = "reported"
    /\ exit_code' = Some(EXIT_SUCCESS)
    /\ mpc' = "exited"
    /\ UNCHANGED <<stdout, parseVars, tableVars, collectVars, checkerVars, callerVars>>

InitMainSpec ==
    IdleParse /\ InitMain /\ IdleCollect /\ IdleChecker /\ IdleCaller

NextMain ==
    \/ MainArgs
    \/ MainOpen
    \/ MainFromReader
    \/ MainLocalizedTexts
    \/ MainRegister
    \/ MainCheck
    \/ MainReport
    \/ MainReturn

SpecMain == InitMainSpec /\ [][NextMain]_vars

----------------------------------------------------------------------------
(* SpecErrors: Checker::n_errors and Checker::has_error on the errors of a  *)
(* Checker, written entry by entry as test_n_errors_and_has_error does      *)

MaxDiags == 2        \* most diagnostics under one rule name

\* Checker::n_errors
NErrors(errs) == SumLens(errs, DOMAIN errs)

\* Checker::has_error
HasErrorAnyEntry(errs) == DOMAIN errs # {}
HasError(errs) == NErrors(errs) # 0

ErrorNames == {"rule_name", "rule_name2"}
ErrorDiags == {<<"locale_key", None>>, <<"locale_key", Some("message")>>}

InitErrors ==
    /\ texts = << >> /\ locale_keys = << >>
    /\ rules = << >> /\ errors = EmptyMap        \* Checker::new()
    /\ ERROR_STORAGE = EmptyMap
    /\ rule_idx = 0 /\ n_checks = 0 /\ kpc = "idle"

\* checker.errors.insert(name, Vec::new()) or insert(name, vec![diag])
ErrorsInsert(name, list) ==
    /\ kpc = "idle"
    /\ errors' = [n \in DOMAIN errors \cup {name} |->
                     IF n = name THEN list ELSE errors[n]]
    /\ has_error_ret' = None
    /\ UNCHANGED <<texts, locale_keys, rules, ERROR_STORAGE, rule_idx, n_checks, kpc>>
    /\ UNCHANGED <<n_checkers, parseVars, tableVars, collectVars, mainVars>>

\* checker.errors.get_mut(name).unwrap().push(diag)
ErrorsPush(name, diag) ==
    /\ kpc = "idle"
    /\ name \in DOMAIN errors
    /\ Len(errors[name]) < MaxDiags
    /\ errors' = [errors EXCEPT ![name] = Append(@, diag)]
    /\ has_error_ret' = None
    /\ UNCHANGED <<texts, locale_keys, rules, ERROR_STORAGE, rule_idx, n_checks, kpc>>
    /\ UNCHANGED <<n_checkers, parseVars, tableVars, collectVars, mainVars>>

\* checker.has_error()
CallHasError ==
    /\ kpc = "idle"
    /\ has_error_ret' = Some(HasError(errors))
    /\ UNCHANGED <<n_checkers, parseVars, tableVars, collectVars, checkerVars, mainVars>>

InitErrorsSpec ==
    IdleParse /\ IdleTable /\ IdleCollect /\ InitErrors /\ IdleMain /\ InitCaller

NextErrors ==
    \/ \E name \in ErrorNames :
          \E list \in {<< >>} \cup {<<d>> : d \in ErrorDiags} : ErrorsInsert(name, list)
    \/ \E name \in ErrorNames : \E diag \in ErrorDiags : ErrorsPush(name, diag)
    \/ CallHasError

SpecErrors == InitErrorsSpec /\ [][NextErrors]_vars

----------------------------------------------------------------------------
(* What the claims compare the code with *)

\* the diagnostics a step appended under `rule`, when the older ones are kept
Appended(rule) ==
    LET old == Diags(ERROR_STORAGE, RuleName(rule))
        new == Diags(ERROR_STORAGE', RuleName(rule))
    IN  IF Len(new) >= Len(old) /\ SubSeq(new, 1, Len(old)) = old
        THEN Some(SubSeq(new, Len(old) + 1, Len(new)))
        ELSE None

\* the step is a run of `rule` by Checker::check
RuleRan(rule) ==
    /\ kpc = "checking"
    /\ rule_idx < Len(rules)
    /\ rules[rule_idx + 1] = rule
    /\ rule_idx' = rule_idx + 1

\* `rule` has run in the only check so far
HasRunOnce(rule) ==
    /\ n_checks = 1
    /\ kpc = "checking"
    /\ \E i \in 1..rule_idx : rules[i] = rule

AllEnglishPresent == \A i \in 1..Len(texts) : texts[i].en.some

\* the scan of a key as the specification words it, from the cursor c on
RECURSIVE ScanSpec(_, _)
ScanSpec(s, c) ==
    IF c >= Len(s) THEN << >>
    ELSE IF \A i \in c..(Len(s) - 1) : s[i + 1] # "{"
    THEN <<WithoutBrace(SubSeq(s, c + 1, Len(s)))>>
    ELSE LET l == CHOOSE i \in c..(Len(s) - 1) :
                    s[i + 1] = "{" /\ \A j \in c..(i - 1) : s[j + 1] # "{"
         IN  IF \A i \in (l + 1)..(Len(s) - 1) : s[i + 1] # "}"
             THEN <<WithoutBrace(SubSeq(s, c + 1, Len(s)))>>
             ELSE LET r == CHOOSE i \in (l + 1)..(Len(s) - 1) :
                             s[i + 1] = "}" /\ \A j \in (l + 1)..(i - 1) : s[j + 1] # "}"
                  IN  (IF l > c THEN <<WithoutBrace(SubSeq(s, c + 1, l))>> ELSE << >>)
                      \o <<WithinBrace(SubSeq(s, l + 2, r))>>
                      \o ScanSpec(s, r + 1)

\* the expected English text of a key: every brace-enclosed segment s is
\* written %{s}, the rest is kept
RECURSIVE Reserialized(_, _)
Reserialized(toks, i) ==
    IF i > Len(toks) THEN << >>
    ELSE (IF toks[i] = WithinBrace(toks[i].str)
          THEN <<"%">> \o <<"{">> \o toks[i].str \o <<"}">>
          ELSE toks[i].str) \o Reserialized(toks, i + 1)

ExpectedEnglish(key) == Reserialized(ScanSpec(key, 0), 1)

----------------------------------------------------------------------------
\* C1: when KeyEngMatches runs over a table and reaches the first key whose
\* English translation is absent, it records exactly one diagnostic with a
\* message, (that key, "Missing English translation"), as its last one, and
\* records nothing for any later key; when that key is the first of the table
\* the diagnostics of the run are exactly that one.
C1_ShortCircuit ==
    [][RuleRan("KeyEngMatches") =>
        \A i \in 1..Len(texts) :
            (~texts[i].en.some /\ \A j \in 1..(i - 1) : texts[j].en.some) =>
                /\ Appended("KeyEngMatches").some
                /\ LET new == Appended("KeyEngMatches").val
                   IN  /\ new # << >>
                       /\ new[Len(new)] = <<texts[i].key, Some(MsgMissingEnglish)>>
                       /\ \A n \in 1..(Len(new) - 1) : ~new[n][2].some
                       /\ \A n \in 1..Len(new) : \A j \in (i + 1)..Len(texts) :
                              new[n][1] # texts[j].key
                       /\ i = 1 => new = << <<texts[1].key, Some(MsgMissingEnglish)>> >>
    ]_vars

\* keys [A (no translation), B (mismatched translation)]: only A is reported
C1_Witness ==
    /\ Len(texts) = 2
    /\ texts[1] = [key |-> <<"{">>, en |-> None]
    /\ texts[2] = [key |-> KeyBraces, en |-> Some(KeyBraces)]
    /\ HasRunOnce("KeyEngMatches")
    /\ Diags(ERROR_STORAGE, "KeyEngMatches") = << <<(<<"{">>), Some(MsgMissingEnglish)>> >>

RECURSIVE MismatchedKeys(_, _)
MismatchedKeys(localized, i) ==
    IF i > Len(localized) THEN << >>
    ELSE (IF localized[i].en.val # ExpectedEnglish(localized[i].key)
          THEN << <<localized[i].key, None>> >> ELSE << >>)
         \o MismatchedKeys(localized, i + 1)

\* C2: over a table in which every key has an English translation, a run of
\* KeyEngMatches records (key, no message) for exactly the keys whose
\* translation differs from the re-serialized key, in table order; x{x} with
\* x%{x} is not reported, x{x} with x{x} is.
C2_KeyEngMatches ==
    [][(RuleRan("KeyEngMatches") /\ AllEnglishPresent) =>
        /\ Appended("KeyEngMatches") = Some(MismatchedKeys(texts, 1))
        /\ \A i \in 1..Len(texts) :
              /\ texts[i] = [key |-> KeyBraces, en |-> Some(EnEscaped)] =>
                    \A n \in 1..Len(Appended("KeyEngMatches").val) :
                        Appended("KeyEngMatches").val[n][1] # KeyBraces
              /\ texts[i] = [key |-> KeyBraces, en |-> Some(KeyBraces)] =>
                    \E n \in 1..Len(Appended("KeyEngMatches").val) :
                        Appended("KeyEngMatches").val[n] = <<KeyBraces, None>>
    ]_vars

C2_Witness ==
    /\ Len(texts) = 2
    /\ texts[1] = [key |-> << >>, en |-> Some(<< >>)]
    /\ texts[2] = [key |-> KeyBraces, en |-> Some(KeyBraces)]
    /\ HasRunOnce("KeyEngMatches")
    /\ Diags(ERROR_STORAGE, "KeyEngMatches") = << <<KeyBraces, None>> >>

\* C3: when parse has ended, its tokens are those of the specified scan of the
\* input; }{x{x}{{x{ gives WithoutBrace(}), WithinBrace(x{x), WithoutBrace({{x{).
C3_ParseIsScan ==
    ParseDone =>
        /\ tokens = ScanSpec(input, 0)
        /\ input = InputChaos =>
              tokens = <<WithoutBrace(<<"}">>), WithinBrace(<<"x", "{", "x">>),
                         WithoutBrace(<<"{", "{", "x", "{">>)>>
        /\ input = <<"{", "}">> => tokens = <<WithinBrace(<< >>)>>

C3_Witness ==
    /\ ParseDone
    /\ input = InputChaos
    /\ Len(tokens) = 3
    /\ tokens[2] = WithinBrace(<<"x", "{", "x">>)

MsgMissingForEnglish == <<"Missing translations for ", "[", "English", "]">>

RECURSIVE KeysWithoutEnglish(_, _)
KeysWithoutEnglish(localized, i) ==
    IF i > Len(localized) THEN << >>
    ELSE (IF localized[i].en = None
          THEN << <<localized[i].key, Some(MsgMissingForEnglish)>> >> ELSE << >>)
         \o KeysWithoutEnglish(localized, i + 1)

\* C4: a run of MissingTranslations records, in table order, one diagnostic
\* (key, "Missing translations for [English]") for each key whose English
\* translation is absent and nothing for a key that has one, the empty string
\* included.
C4_MissingTranslations ==
    [][RuleRan("MissingTranslations") =>
        Appended("MissingTranslations") = Some(KeysWithoutEnglish(texts, 1))
    ]_vars

C4_Witness ==
    /\ Len(texts) = 2
    /\ texts[1] = [key |-> KeyBraces, en |-> Some(<< >>)]
    /\ texts[2] = [key |-> <<"{">>, en |-> None]
    /\ HasRunOnce("MissingTranslations")
    /\ Diags(ERROR_STORAGE, "MissingTranslations")
          = << <<(<<"{">>), Some(MsgMissingForEnglish)>> >>

RECURSIVE UnknownUsages(_, _, _)
UnknownUsages(localized, usages, i) ==
    IF i > Len(usages) THEN << >>
    ELSE (IF usages[i].key \notin {localized[n].key : n \in 1..Len(localized)}
          THEN << << <<"file '", usages[i].file, "' / line '", usages[i].line,
                       "' / column '", usages[i].column, "' / key '", usages[i].key, "'">>,
                     None >> >>
          ELSE << >>)
         \o UnknownUsages(localized, usages, i + 1)

\* C5: a run of UseOfKeysDoNotExist records, in usage order and once per
\* usage, a diagnostic for every KeyUsage whose key is no key of the table:
\* its subject is file '<path>' / line '<line>' / column '<column>' / key
\* '<key>' and it has no message; a usage of a key of the table records nothing.
C5_UseOfKeysDoNotExist ==
    [][RuleRan("UseOfKeysDoNotExist") =>
        Appended("UseOfKeysDoNotExist") = Some(UnknownUsages(texts, locale_keys, 1))
    ]_vars

\* the same unknown key used twice, and a known key between no diagnostics
C5_Witness ==
    /\ Len(locale_keys) = 2
    /\ locale_keys[1] = locale_keys[2]
    /\ locale_keys[1].key = <<"k">>
    /\ Len(texts) = 1
    /\ HasRunOnce("UseOfKeysDoNotExist")
    /\ Len(Diags(ERROR_STORAGE, "UseOfKeysDoNotExist")) = 2
    /\ Diags(ERROR_STORAGE, "UseOfKeysDoNotExist")[1]
          = << <<"file '", "bar.rs", "' / line '", 2, "' / column '", 1,
                 "' / key '", <<"k">>, "'">>, None >>

----------------------------------------------------------------------------
(* The claims on LocalizedTexts::new *)

IsMapping(y) == y.kind = "Mapping"

\* the entries of the outer mapping under the key _version, and the others
VersionEntries(y) ==
    {i \in 1..Len(y.entries) : y.entries[i][1] = YString(StrVersion)}
OtherEntries(y) == (1..Len(y.entries)) \ VersionEntries(y)

Constructed == new_result.some
Built       == new_result.some /\ new_result.val.ok
Aborted     == new_result.some /\ ~new_result.val.ok

\* C6: LocalizedTexts::new returns a table only when the outer mapping has a
\* _version entry whose value is the integer 2; without a _version entry, and
\* with a _version value other than the integer 2, it panics and returns no
\* table, with different messages in the two cases.
C6_VersionGate ==
    Constructed =>
        /\ Built => /\ IsMapping(file_yaml)
                    /\ \E i \in VersionEntries(file_yaml) : file_yaml.entries[i][2] = YInt(2)
        /\ (IsMapping(file_yaml) /\ VersionEntries(file_yaml) = {}) =>
              (Aborted /\ new_result.val.panic = PanicVersionMissing)
        /\ (IsMapping(file_yaml) /\ \E i \in VersionEntries(file_yaml) :
                                      file_yaml.entries[i][2] # YInt(2)) =>
              (Aborted /\ new_result.val.panic # PanicVersionMissing
                       /\ new_result.val.panic \in {PanicVersionNot2, PanicVersionNotInt})

C6_Witness ==
    /\ Aborted
    /\ IsMapping(file_yaml)
    /\ Len(file_yaml.entries) = 3
    /\ file_yaml.entries[1] = <<YString(StrVersion), YInt(1)>>
    /\ new_result.val.panic = PanicVersionNot2

\* the English translation the claim gives a value of the tree
EnglishOfValue(v) ==
    IF v.kind = "Mapping" /\ \E n \in 1..Len(v.entries) : v.entries[n][1] = YString(StrEn)
    THEN Some((v.entries[CHOOSE n \in 1..Len(v.entries) :
                            v.entries[n][1] = YString(StrEn)][2]).val)
    ELSE None

\* the entries of the tree other than _version, in the tree's order
RECURSIVE RecordsInTreeOrder(_, _)
RecordsInTreeOrder(es, i) ==
    IF i > Len(es) THEN << >>
    ELSE (IF es[i][1] = YString(StrVersion) THEN << >>
          ELSE <<[key |-> es[i][1].val, en |-> EnglishOfValue(es[i][2])]>>)
         \o RecordsInTreeOrder(es, i + 1)

\* C7: when LocalizedTexts::new returns a table, its keys are the keys of the
\* tree other than _version in the tree's insertion order, with English absent
\* for a null value and for a mapping without en, and the string under en
\* otherwise.
C7_TableInTreeOrder ==
    Built => new_result.val.val = RecordsInTreeOrder(file_yaml.entries, 1)

\* what is wrong with the tree, in the words of C8
BadShape(y) ==
    \/ ~IsMapping(y)
    \/ /\ IsMapping(y)
       /\ \E i \in OtherEntries(y) :
            \/ y.entries[i][1].kind # "String"
            \/ y.entries[i][2].kind \notin {"Null", "Mapping"}
            \/ /\ y.entries[i][2].kind = "Mapping"
               /\ \E n \in 1..Len(y.entries[i][2].entries) :
                     /\ y.entries[i][2].entries[n][1] = YString(StrEn)
                     /\ y.entries[i][2].entries[n][2].kind # "String"

\* C8: LocalizedTexts::new panics and returns no table when the outer node is
\* no mapping, a key other than _version is no string, a value is neither null
\* nor a mapping, or the value under en is no string; nothing of this is stored
\* as a diagnostic of a rule.
C8_MalformedTreeIsFatal ==
    (Constructed /\ BadShape(file_yaml)) =>
        /\ Aborted
        /\ errors = EmptyMap
        /\ ERROR_STORAGE = EmptyMap

C8_Witness ==
    /\ Aborted
    /\ IsMapping(file_yaml)
    /\ Len(file_yaml.entries) = 2
    /\ file_yaml.entries[1] = <<YString(StrVersion), YInt(2)>>
    /\ file_yaml.entries[2] = <<YString(StrA), YMapping(<< <<YString(StrEn), YInt(1)>> >>)>>
    /\ new_result.val.panic = PanicEnNotString

----------------------------------------------------------------------------
(* The claims on visit_macro *)

\* the step visits the invocation mac'
VisitStep == cpc = "visiting" /\ cpc' \in {"visiting", "panicked"}

\* the paths C9 names
PathOfTranslationMacro(m) ==
    m.segments = <<"t">> \/ m.segments = <<"rust_i18n", "t">>

\* C9: visiting an invocation whose path is t or rust_i18n::t calls
\* LocaleKey::new once, so that one KeyUsage of it is recorded unless its
\* argument makes LocaleKey::new panic; visiting an invocation of any other
\* path records nothing.
C9_MacroMatching ==
    [][VisitStep =>
        /\ (PathOfTranslationMacro(mac') /\ cpc' = "visiting") =>
              /\ Len(single_keys') = Len(single_keys) + 1
              /\ SubSeq(single_keys', 1, Len(single_keys)) = single_keys
              /\ single_keys'[Len(single_keys')].file = cur_file
              /\ single_keys'[Len(single_keys')].line = mac'.line
              /\ single_keys'[Len(single_keys')].column = mac'.column
        /\ (PathOfTranslationMacro(mac') /\ cpc' = "panicked") =>
              (mac'.tokens = << >> \/ mac'.tokens[1].tt # "Literal")
        /\ ~PathOfTranslationMacro(mac') =>
              (single_keys' = single_keys /\ cpc' = "visiting")
    ]_vars

C9_Witness ==
    /\ cpc = "visiting"
    /\ mac.segments = <<"rust_i18n", "t">>
    /\ ~mac.leading_colon
    /\ single_keys = <<[key |-> <<"k">>, file |-> "foo.rs", line |-> 2, column |-> 1]>>

\* C10: visiting an invocation whose path starts with :: records no KeyUsage.
C10_LeadingColonIgnored ==
    [][(VisitStep /\ mac'.leading_colon) => single_keys' = single_keys]_vars

----------------------------------------------------------------------------
(* C11, C12: what the extractor records *)

\* the source text of a string literal opens with a double quote
IsStringLiteral(tok) ==
    tok.tt = "Literal" /\ tok.text # << >> /\ tok.text[1] = "\""

\* C11: for an invocation matching the pattern whose token stream is empty or
\* does not start with a string literal (an identifier, punctuation, a group,
\* or a literal of another kind such as an integer), extraction aborts and no
\* KeyUsage is produced; a KeyUsage is produced only when the first token is
\* a string literal.
C11_FirstTokenMustBeStringLiteral ==
    [][(VisitStep /\ PathOfTranslationMacro(mac')) =>
        IF mac'.tokens # << >> /\ IsStringLiteral(mac'.tokens[1])
        THEN cpc' = "visiting" /\ Len(single_keys') = Len(single_keys) + 1
        ELSE cpc' = "panicked" /\ single_keys' = single_keys]_vars

\* the invocations of the pattern written in a token stream, in document
\* order: an identifier t, a `!` and a group of arguments
RECURSIVE NestedTranslationMacros(_)
NestedTranslationMacros(stream) ==
    IF stream = << >> THEN << >>
    ELSE IF /\ Len(stream) >= 3
            /\ stream[1] = Ident("t") /\ stream[2] = Punct("!")
            /\ stream[3].tt = "Group"
         THEN <<stream[3].stream>> \o NestedTranslationMacros(stream[3].stream)
                  \o NestedTranslationMacros(SubSeq(stream, 4, Len(stream)))
         ELSE IF Head(stream).tt = "Group"
              THEN NestedTranslationMacros(Head(stream).stream)
                       \o NestedTranslationMacros(Tail(stream))
              ELSE NestedTranslationMacros(Tail(stream))

\* the keys of every invocation of the pattern that the invocation m holds,
\* itself first and then those among its arguments, in document order
KeysWrittenIn(m) ==
    LET own    == IF PathOfTranslationMacro(m)
                  THEN <<TrimMatches(m.tokens[1].text, "\"")>> ELSE << >>
        nested == NestedTranslationMacros(m.tokens)
    IN  own \o [i \in 1..Len(nested) |-> TrimMatches(nested[i][1].text, "\"")]

\* C12: every invocation of the pattern is visited whatever its nesting,
\* inside the arguments of another invocation included, and yields exactly
\* one KeyUsage; the KeyUsages of a run follow the order of the files and,
\* within a file, document order.
C12_EveryInvocationVisited ==
    [][/\ (VisitStep /\ cpc' = "visiting") =>
            LET ks == KeysWrittenIn(mac')
            IN  /\ Len(single_keys') = Len(single_keys) + Len(ks)
                /\ SubSeq(single_keys', 1, Len(single_keys)) = single_keys
                /\ \A i \in 1..Len(ks) :
                       /\ single_keys'[Len(single_keys) + i].key = ks[i]
                       /\ single_keys'[Len(single_keys) + i].file = cur_file
       /\ (cpc = "visiting" /\ cpc' = "between") =>
            collected' = collected \o single_keys]_vars

----------------------------------------------------------------------------
(* C13, C14: the rules of one check and the entries they write *)

NamesDistinct ==
    \A r1, r2 \in RuleIds : r1 # r2 => RuleName(r1) # RuleName(r2)

\* the entries of the store under every name but `name` are the same before
\* and after the step
OtherEntriesUnchanged(name) ==
    \A n \in (DOMAIN ERROR_STORAGE \cup DOMAIN ERROR_STORAGE') \ {name} :
        /\ n \in DOMAIN ERROR_STORAGE /\ n \in DOMAIN ERROR_STORAGE'
        /\ ERROR_STORAGE'[n] = ERROR_STORAGE[n]

\* C13: Checker::check runs the registered rules in registration order; a
\* running rule only appends to the entry under its own name and leaves the
\* lists under every other name as they are; the three rules have pairwise
\* distinct names.
C13_RulesAppendToOwnEntry ==
    [][/\ NamesDistinct
       /\ (kpc = "checking" /\ rule_idx' # rule_idx) =>
             /\ rule_idx' = rule_idx + 1 /\ rule_idx' <= Len(rules)
             /\ rules' = rules
             /\ Appended(rules[rule_idx + 1]).some
             /\ OtherEntriesUnchanged(RuleName(rules[rule_idx + 1]))
       /\ ERROR_STORAGE' # ERROR_STORAGE =>
             (kpc = "checking" /\ rule_idx' = rule_idx + 1)
       /\ (kpc = "idle" /\ kpc' = "checking") => rule_idx' = 0
       /\ (kpc = "checking" /\ kpc' = "idle") => rule_idx = Len(rules)]_vars

C13_Witness ==
    /\ kpc = "checking" /\ rule_idx = 3
    /\ rules = <<"UseOfKeysDoNotExist", "KeyEngMatches", "MissingTranslations">>
    /\ DOMAIN ERROR_STORAGE = RuleIds

\* what each rule of the set S reports when it runs alone on an empty
\* store, put together by rule name: no order of the rules enters
ResultOfRuleSet(S) ==
    LET alone(rule) == RuleCheck(rule, texts, locale_keys, EmptyMap)
        names == UNION {DOMAIN alone(rule) : rule \in S}
    IN  [n \in names |->
            alone(CHOOSE rule \in S : n \in DOMAIN alone(rule))[n]]

\* one check of a Checker has run all its registered rules and has returned
CheckedOnce ==
    n_checks = 1 /\ kpc = "idle" /\ rule_idx = Len(rules)

\* C14: after one check the mapping from rule name to diagnostic list is the
\* same for every order in which one set of rules was registered.
C14_RegistrationOrderIrrelevant ==
    CheckedOnce =>
        ERROR_STORAGE = ResultOfRuleSet({rules[i] : i \in 1..Len(rules)})

C14_Witness ==
    /\ CheckedOnce
    /\ rules = <<"MissingTranslations", "UseOfKeysDoNotExist", "KeyEngMatches">>
    /\ DOMAIN ERROR_STORAGE = RuleIds
    /\ Len(ERROR_STORAGE["MissingTranslations"]) = 2

----------------------------------------------------------------------------
(* C15, C19: the collector and the runs of one process *)

\* the store after the rules rs[i..] have run in this order on `store`
RECURSIVE RunRulesFrom(_, _, _)
RunRulesFrom(rs, i, store) ==
    IF i > Len(rs) THEN store
    ELSE RunRulesFrom(rs, i + 1, RuleCheck(rs[i], texts, locale_keys, store))

\* C15: a run of the pipeline over the same inputs ends with the same
\* diagnostics whatever ran before it in the process: after the second run
\* the collection is what it was after the first, which started from
\* nothing.
C15_RunsDoNotDependOnEarlierRuns ==
    CheckedOnce => ERROR_STORAGE = RunRulesFrom(rules, 1, EmptyMap)

\* C19: the diagnostics a rule reports are stored in the collector passed
\* to it, the errors of its Checker, and in no state of the process; the
\* collector changes only when a rule runs, and a new Checker has an empty
\* one.
C19_CollectorOwnedByRun ==
    [][/\ \A rule \in RuleIds : RuleRan(rule) =>
             /\ errors' = RuleCheck(rule, texts, locale_keys, errors)
             /\ ERROR_STORAGE' = ERROR_STORAGE
       /\ errors' # errors => \E rule \in RuleIds : RuleRan(rule)
       /\ n_checkers' # n_checkers => errors' = EmptyMap]_vars

----------------------------------------------------------------------------
(* C16, C17: the run of main *)

\* C16: a process whose final collection holds a diagnostic ends with a
\* non-zero exit status, and one whose collection holds none ends with zero.
C16_ExitStatusTellsDiagnostics ==
    mpc = "exited" =>
        /\ exit_code.some
        /\ exit_code.val = 0 <=> SumLens(ERROR_STORAGE, DOMAIN ERROR_STORAGE) = 0

\* C17: a rule runs only after the locale table has been built, and a run in
\* which a fatal error occurs has executed no rule, has recorded no
\* diagnostic and has printed no report.
C17_FatalOnlyBeforeRules ==
    /\ (rule_idx > 0 \/ ERROR_STORAGE # EmptyMap \/ stdout # << >>) =>
           (Built /\ texts = new_result.val.val /\ mpc # "panicked")
    /\ Aborted => mpc = "panicked"
    /\ mpc = "panicked" =>
           /\ rule_idx = 0 /\ rules = << >>
           /\ ERROR_STORAGE = EmptyMap
           /\ stdout = << >>
           /\ exit_code.some /\ exit_code.val # 0

C17_Witness ==
    /\ mpc = "panicked"
    /\ Aborted /\ new_result.val.panic = PanicBadTranslation
    /\ file_yaml.kind = "Mapping" /\ Len(file_yaml.entries) = 3

----------------------------------------------------------------------------
(* C18: has_error *)

----------------------------------------------------------------------------
(* C20: a left brace with no right brace after it *)

\* the first left brace at or after the offset c of s has no right brace
\* after it
UnmatchedLeftAt(s, c) ==
    \E l \in (c + 1)..Len(s) :
        /\ s[l] = "{"
        /\ \A i \in (c + 1)..(l - 1) : s[i] # "{"
        /\ \A i \in (l + 1)..Len(s) : s[i] # "}"

\* C20: when the next left brace has no right brace after it, parse pushes
\* one more token, WithoutBrace of all the input from the cursor on (the
\* text before the brace and the brace together), and returns; { gives
\* WithoutBrace({) and x{x{x{ gives WithoutBrace(x{x{x{).
C20_UnmatchedLeftBrace ==
    [][(InLoop /\ UnmatchedLeftAt(input, start_offset)) =>
        /\ tokens' = Append(tokens,
                 WithoutBrace(SubSeq(input, start_offset + 1, Len(input))))
        /\ ppc' = "returned"
        /\ input = <<"{">> => tokens' = <<WithoutBrace(<<"{">>)>>
        /\ input = InputLeftBraces => tokens' = <<WithoutBrace(InputLeftBraces)>>]_vars

C20_Witness ==
    /\ ppc = "returned"
    /\ input = InputLeftBraces
    /\ tokens = <<WithoutBrace(<<"x", "{", "x", "{", "x", "{">>)>>

----------------------------------------------------------------------------
(* C21: the tokens written back *)

\* the tokens toks[i..] written one after the other: WithoutBrace(s) as s,
\* WithinBrace(s) as { s }
RECURSIVE Written(_, _)
Written(toks, i) ==
    IF i > Len(toks) THEN << >>
    ELSE (IF toks[i].kind = "WithinBrace"
          THEN <<"{">> \o toks[i].str \o <<"}">>
          ELSE toks[i].str) \o Written(toks, i + 1)

\* C21: the tokens of parse, written back one after the other, are the key:
\* no character is dropped, doubled or moved; no WithoutBrace token is
\* empty, and the empty key has no token.
C21_TokensWriteBackTheKey ==
    ParseDone =>
        /\ Written(tokens, 1) = input
        /\ \A i \in 1..Len(tokens) :
               tokens[i].kind = "WithoutBrace" => tokens[i].str # << >>
        /\ input = << >> => tokens = << >>

C21_Witness ==
    /\ ParseDone
    /\ input = <<"x", "{", "}", "{", "x">>
    /\ tokens = <<WithoutBrace(<<"x">>), WithinBrace(<< >>), WithoutBrace(<<"{", "x">>)>>

----------------------------------------------------------------------------
(* C22: parse terminates *)

\* left_brace_location and right_brace_location of the iteration that starts
\* at the cursor, as the code computes them
LeftBraceLocation ==
    Find(input, start_offset, LEFT_BRACE).val + start_offset
RightBraceLocation ==
    FindRightBrace(input, LeftBraceLocation).val + LeftBraceLocation

\* the iteration at the cursor finds a pair of braces
AtBracePair ==
    /\ InLoop
    /\ Find(input, start_offset, LEFT_BRACE).some
    /\ FindRightBrace(input, LeftBraceLocation).some

\* C22: parse terminates on every key; an iteration of its loop returns or
\* moves the cursor forward; the offsets it slices at lie in the input (the
\* cursor is at most the left brace, which is before the right brace, which
\* is before the end), and the cursor never passes the length of the input.
C22_ParseTerminates ==
    /\ [](start_offset <= Len(input))
    /\ [](AtBracePair =>
            /\ start_offset <= LeftBraceLocation
            /\ LeftBraceLocation < RightBraceLocation
            /\ RightBraceLocation < Len(input))
    /\ [][InLoop => \/ ppc' = "returned"
                    \/ ppc' = "loop" /\ start_offset' > start_offset]_vars
    /\ <>ParseDone

C22_Witness ==
    /\ ppc = "exited"
    /\ input = InputEndsBrace
    /\ start_offset = Len(input)
    /\ Len(tokens) = 2

----------------------------------------------------------------------------
(* C23: diagnostics are only appended *)

IsPrefix(a, b) == Len(a) <= Len(b) /\ SubSeq(b, 1, Len(a)) = a

\* every list of the map `old` is still in `new`, with the same diagnostics
\* at its start
Extends(new, old) ==
    \A n \in DOMAIN old : n \in DOMAIN new /\ IsPrefix(old[n], new[n])

====
